---- MODULE Spec2Model ----
(***************************************************************************)
(* Student services analytics: the synthetic data generator                *)
(* (scripts/generate_data.py) and the analytics report                     *)
(* (notebooks/services_analysis.py).                                       *)
(*                                                                         *)
(* Numbers.  Stored minutes and scores have one decimal and are kept in    *)
(* tenths (45.0 min = 450, 3.8 = 38).  Values before rounding are kept in  *)
(* hundredths (12.05 = 1205).  Percentages and means that the report       *)
(* rounds to two decimals are kept in hundredths.                          *)
(***************************************************************************)
EXTENDS Integers, Sequences, FiniteSets, TLC

VARIABLES
    rstep, row,                 \* one row of the generator's columns
    gpc, rng, cols, csv, runs,  \* the generator script, run after run
    pc, input, dir_exists, fslog, out, df, ns, reads    \* the report script

rowVars == <<rstep, row>>
genVars == <<gpc, rng, cols, csv, runs>>
repVars == <<pc, input, dir_exists, fslog, out, df, ns, reads>>
vars ==
    <<rstep, row, gpc, rng, cols, csv, runs,
      pc, input, dir_exists, fslog, out, df, ns, reads>>

----------------------------------------------------------------------------
(* The generator's categorical lists                                       *)

Departments ==
    <<"Financial Aid", "Registrar", "Student Business Services",
      "Admissions", "General Inquiry">>
DepartmentsP == <<30, 25, 20, 15, 10>>

Channels == <<"Walk-In", "Phone", "Email", "Virtual Appointment">>
ChannelsP == <<45, 25, 20, 10>>

Quarters == <<"Fall 2024", "Winter 2025", "Spring 2025", "Summer 2025">>
QuartersP == <<35, 25, 25, 15>>

month_map ==
    [q \in {"Fall 2024", "Winter 2025", "Spring 2025", "Summer 2025"} |->
        CASE q = "Fall 2024" -> <<"Sep", "Oct", "Nov", "Dec">>
          [] q = "Winter 2025" -> <<"Jan", "Feb", "Mar">>
          [] q = "Spring 2025" -> <<"Apr", "May", "Jun">>
          [] q = "Summer 2025" -> <<"Jul", "Aug">>]

Days == <<"Monday", "Tuesday", "Wednesday", "Thursday", "Friday">>
DaysP == <<22, 20, 20, 20, 18>>

Hours == <<"8-10 AM", "10-12 PM", "12-2 PM", "2-4 PM">>
HoursP == <<20, 35, 25, 20>>

Staff ==
    <<"Staff A", "Staff B", "Staff C", "Staff D", "Staff E",
      "Staff F", "Staff G", "Staff H">>

inquiry_type_map ==
    [d \in {"Financial Aid", "Registrar", "Student Business Services",
            "Admissions", "General Inquiry"} |->
        CASE d = "Financial Aid" ->
               <<"FAFSA Status", "Award Letter", "Scholarship Inquiry",
                 "Loan Questions", "Work-Study">>
          [] d = "Registrar" ->
               <<"Transcript Request", "Enrollment Verification",
                 "Grade Change", "Graduation Check", "Add/Drop">>
          [] d = "Student Business Services" ->
               <<"Tuition Payment", "Refund Status", "Payment Plan",
                 "Account Hold", "1098-T">>
          [] d = "Admissions" ->
               <<"Application Status", "Admission Decision",
                 "Transfer Credits", "Orientation", "Residency">>
          [] d = "General Inquiry" ->
               <<"Campus Resources", "Department Referral", "Hours/Location",
                 "General Question", "Complaint">>]

StudentTypes == <<"Undergraduate", "Graduate", "Prospective", "Parent/Guardian">>
StudentTypesP == <<55, 20, 15, 10>>

Resolutions ==
    <<"Resolved on First Contact", "Follow-Up Required",
      "Escalated to Department", "Referred to Another Office">>
ResolutionsP == <<55, 20, 15, 10>>

YesNo == <<"Yes", "No">>
YesNoP == <<70, 30>>

Range(s) == {s[i] : i \in DOMAIN s}

----------------------------------------------------------------------------
(* Elementwise arithmetic of the derived columns                           *)

\* np.clip with the upper limit lost
ClipNoUpper(x, lo, hi) == IF x < lo THEN lo ELSE x

\* np.clip(x, lo, hi)
Clip(x, lo, hi) == IF x < lo THEN lo ELSE IF x > hi THEN hi ELSE x

\* .round(1): hundredths to tenths, ties to the even tenth (numpy rint)
Round1(h) ==
    LET q == h \div 10
        m == h % 10
    IN  IF m < 5 THEN q
        ELSE IF m > 5 THEN q + 1
        ELSE IF q % 2 = 0 THEN q ELSE q + 1

\* wait_adj, in minutes
WaitAdj(ch, q, m) ==
    (IF ch = "Walk-In" THEN 5 ELSE 0)
    + (IF q = "Fall 2024" THEN 4 ELSE 0)
    + (IF m \in {"Sep", "Jan"} THEN 3 ELSE 0)

\* wait_time_min, in tenths, from base_wait in hundredths
WaitTimeMin(base, ch, q, m) ==
    Round1(Clip(base + 100 * WaitAdj(ch, q, m), 0, 4500))

\* service_adj, in minutes
ServiceAdj(d, ch) ==
    (IF d = "Financial Aid" THEN 5 ELSE 0)
    + (IF d = "Student Business Services" THEN 3 ELSE 0)
    + (IF ch = "Email" THEN -4 ELSE 0)

\* service_time_min, in tenths, from base_service in hundredths
ServiceTimeMin(base, d, ch) ==
    Round1(Clip(base + 100 * ServiceAdj(d, ch), 200, 4000))

\* fcr_boost, in hundredths; computed and never used
FcrBoost(d) ==
    (IF d = "General Inquiry" THEN 15 ELSE 0)
    + (IF d = "Registrar" THEN 5 ELSE 0)

\* sat_adj, in hundredths; wait is the stored wait_time_min, in tenths
SatAdj(res, wait) ==
    (IF res = "Resolved on First Contact" THEN 50 ELSE 0)
    + (IF res = "Escalated to Department" THEN -30 ELSE 0)
    + (IF wait > 200 THEN -40 ELSE 0)
    + (IF wait < 50 THEN 30 ELSE 0)

\* satisfaction, in tenths, from base_sat in hundredths
Satisfaction(base, res, wait) ==
    Round1(Clip(base + SatAdj(res, wait), 100, 500))

\* escalated keyed on every resolution that leaves the desk
EscalatedAnyHandoff(res) ==
    IF res \in {"Escalated to Department", "Referred to Another Office"}
    THEN "Yes" ELSE "No"

\* escalated
Escalated(res) == IF res = "Escalated to Department" THEN "Yes" ELSE "No"

\* callback without the np.where mask
CallbackUnmasked(res, draw) == draw

\* callback; draw is the row's entry of the Yes/No sample
Callback(res, draw) == IF res = "Follow-Up Required" THEN draw ELSE "No"

----------------------------------------------------------------------------
(* One row of the generator.  Every statement of the generator is          *)
(* elementwise over its n-vectors, so entry i of each derived column is a  *)
(* function of entry i of the columns it reads.  The actions below follow  *)
(* one index i through the statements that feed the derived columns, the   *)
(* random source left free: any value of the sampled distribution's        *)
(* support that the sets below contain.  day_of_week, time_slot,           *)
(* staff_member, inquiry_type and student_type feed no derived column and  *)
(* are followed in the whole-table run further down.                       *)

\* base_wait ~ exponential(8): non-negative, unbounded above (hundredths)
BaseWaits == {4, 1205, 4496}
\* base_service ~ normal(12, 5): unbounded both ways (hundredths)
BaseServices == {-350, 1205, 3996}
\* base_sat ~ normal(3.8, 0.8): unbounded both ways (hundredths)
BaseSats == {55, 380, 496}

RowOrder ==
    <<"departments", "channel", "quarter", "months", "base_wait",
      "wait_time_min", "base_service", "service_time_min", "resolution",
      "fcr_boost", "base_sat", "satisfaction", "escalated", "callback",
      "done">>

RowPos(s) == CHOOSE i \in DOMAIN RowOrder : RowOrder[i] = s

\* the statement named s has been executed for this row
RowPast(s) == RowPos(rstep) > RowPos(s)

RowBlank ==
    [department |-> "-", channel |-> "-", quarter |-> "-", month |-> "-",
     base_wait |-> 0, wait_time_min |-> 0,
     base_service |-> 0, service_time_min |-> 0,
     resolution |-> "-", fcr_boost |-> 0,
     base_sat |-> 0, satisfaction |-> 0,
     escalated |-> "-", callback_draw |-> "-", callback_required |-> "-"]

RowStep(from, to, r) ==
    /\ rstep = from
    /\ rstep' = to
    /\ row' = r
    /\ UNCHANGED <<genVars, repVars>>

RowDepartments ==
    \E d \in Range(Departments) :
        RowStep("departments", "channel", [row EXCEPT !.department = d])

RowChannel ==
    \E c \in Range(Channels) :
        RowStep("channel", "quarter", [row EXCEPT !.channel = c])

RowQuarter ==
    \E q \in Range(Quarters) :
        RowStep("quarter", "months", [row EXCEPT !.quarter = q])

RowMonths ==
    /\ rstep = "months"
    /\ \E m \in Range(month_map[row.quarter]) :
           RowStep("months", "base_wait", [row EXCEPT !.month = m])

RowBaseWait ==
    \E b \in BaseWaits :
        RowStep("base_wait", "wait_time_min", [row EXCEPT !.base_wait = b])

RowWaitTime ==
    RowStep("wait_time_min", "base_service",
            [row EXCEPT !.wait_time_min =
                WaitTimeMin(row.base_wait, row.channel, row.quarter, row.month)])

RowBaseService ==
    \E b \in BaseServices :
        RowStep("base_service", "service_time_min",
                [row EXCEPT !.base_service = b])

RowServiceTime ==
    RowStep("service_time_min", "resolution",
            [row EXCEPT !.service_time_min =
                ServiceTimeMin(row.base_service, row.department, row.channel)])

RowResolution ==
    \E x \in Range(Resolutions) :
        RowStep("resolution", "fcr_boost", [row EXCEPT !.resolution = x])

RowFcrBoost ==
    RowStep("fcr_boost", "base_sat",
            [row EXCEPT !.fcr_boost = FcrBoost(row.department)])

RowBaseSat ==
    \E b \in BaseSats :
        RowStep("base_sat", "satisfaction", [row EXCEPT !.base_sat = b])

RowSatisfaction ==
    RowStep("satisfaction", "escalated",
            [row EXCEPT !.satisfaction =
                Satisfaction(row.base_sat, row.resolution, row.wait_time_min)])

RowEscalated ==
    RowStep("escalated", "callback",
            [row EXCEPT !.escalated = Escalated(row.resolution)])

RowCallback ==
    \E y \in Range(YesNo) :
        RowStep("callback", "done",
                [row EXCEPT !.callback_draw = y,
                            !.callback_required = Callback(row.resolution, y)])

----------------------------------------------------------------------------
(* The generator script as a whole: one action per statement, each column  *)
(* an n-vector.  The process-wide random source is a state that every draw *)
(* reads and advances.  numpy's Mersenne Twister and its samplers are      *)
(* stood in for by a full-period congruential generator over 0..M-1 and    *)
(* inverse-CDF sampling on u = state/M; what is kept is that a draw is a   *)
(* function of the source's state and that the state advances once per     *)
(* sampled value.                                                          *)

\* rows per run (3000 in the script)
n == 3
\* runs of the script that are followed
MaxRuns == 2

M == 100
LcgNext(s) == (21 * s + 7) % M

RECURSIVE LcgIter(_, _)
LcgIter(s, k) == IF k = 0 THEN s ELSE LcgIter(LcgNext(s), k - 1)

\* the k values sampled from state s, in order
Sample(s, k) == [i \in 1..k |-> LcgIter(s, i)]

\* the state a freshly started process holds before any seeding (OS entropy)
Entropy == 0..(M - 1)

\* np.random.seed(42)
SeedState(seed) == seed % M

RECURSIVE Cdf(_, _)
Cdf(p, j) == IF j = 0 THEN 0 ELSE p[j] + Cdf(p, j - 1)

\* np.random.choice(a, p=p): cdf.searchsorted(u, side="right")
ChoiceP(a, p, u) == a[1 + Cardinality({j \in DOMAIN p : Cdf(p, j) <= u})]

\* np.random.choice(a): a uniform index
ChoiceU(a, u) == a[1 + (u * Len(a)) \div M]

\* -ln(1 - u) at the midpoint of u's decile, in thousandths
ExpQuantile == <<51, 163, 288, 431, 598, 799, 1050, 1386, 1897, 2996>>
\* np.random.exponential(scale), scale and result in hundredths
Exponential(scale, u) == (scale * ExpQuantile[1 + u \div 10]) \div 1000

\* the standard normal quantile at the midpoint of u's decile, in thousandths
NormalQuantile ==
    <<-1645, -1036, -674, -385, -126, 126, 385, 674, 1036, 1645>>
\* np.random.normal(mu, sigma), all in hundredths
Normal(mu, sigma, u) == mu + (sigma * NormalQuantile[1 + u \div 10]) \div 1000

ColsBlank ==
    [departments |-> <<>>, channel |-> <<>>, quarter |-> <<>>,
     months |-> <<>>, day_of_week |-> <<>>, hour |-> <<>>, staff |-> <<>>,
     inquiry_types |-> <<>>, student_type |-> <<>>,
     base_wait |-> <<>>, wait_time_min |-> <<>>,
     base_service |-> <<>>, service_time_min |-> <<>>,
     resolution |-> <<>>, fcr_boost |-> <<>>,
     base_sat |-> <<>>, satisfaction |-> <<>>,
     escalated |-> <<>>, callback |-> <<>>, df |-> <<>>]

\* a statement that samples n values: draw(u, i) is entry i of its result
GenDraw(from, to, c) ==
    /\ gpc = from
    /\ gpc' = to
    /\ cols' = c
    /\ rng' = LcgIter(rng, n)
    /\ UNCHANGED <<csv, runs, rowVars, repVars>>

\* a statement that samples nothing
GenCompute(from, to, c) ==
    /\ gpc = from
    /\ gpc' = to
    /\ cols' = c
    /\ UNCHANGED <<rng, csv, runs, rowVars, repVars>>

\* the script without line 11: the source keeps the state it started with
GenSeedOmitted ==
    /\ gpc = "seed"
    /\ gpc' = "departments"
    /\ UNCHANGED <<rng, cols, csv, runs, rowVars, repVars>>

GenSeed ==
    /\ gpc = "seed"
    /\ gpc' = "departments"
    /\ rng' = SeedState(42)
    /\ UNCHANGED <<cols, csv, runs, rowVars, repVars>>

GenDepartments ==
    GenDraw("departments", "channel",
        [cols EXCEPT !.departments =
            [i \in 1..n |-> ChoiceP(Departments, DepartmentsP, Sample(rng, n)[i])]])

GenChannel ==
    GenDraw("channel", "quarter",
        [cols EXCEPT !.channel =
            [i \in 1..n |-> ChoiceP(Channels, ChannelsP, Sample(rng, n)[i])]])

GenQuarter ==
    GenDraw("quarter", "months",
        [cols EXCEPT !.quarter =
            [i \in 1..n |-> ChoiceP(Quarters, QuartersP, Sample(rng, n)[i])]])

GenMonths ==
    /\ gpc = "months"
    /\ GenDraw("months", "day_of_week",
        [cols EXCEPT !.months =
            [i \in 1..n |-> ChoiceU(month_map[cols.quarter[i]], Sample(rng, n)[i])]])

GenDayOfWeek ==
    GenDraw("day_of_week", "hour",
        [cols EXCEPT !.day_of_week =
            [i \in 1..n |-> ChoiceP(Days, DaysP, Sample(rng, n)[i])]])

GenHour ==
    GenDraw("hour", "staff",
        [cols EXCEPT !.hour =
            [i \in 1..n |-> ChoiceP(Hours, HoursP, Sample(rng, n)[i])]])

GenStaff ==
    GenDraw("staff", "inquiry_types",
        [cols EXCEPT !.staff =
            [i \in 1..n |-> ChoiceU(Staff, Sample(rng, n)[i])]])

GenInquiryTypes ==
    /\ gpc = "inquiry_types"
    /\ GenDraw("inquiry_types", "student_type",
        [cols EXCEPT !.inquiry_types =
            [i \in 1..n |->
                ChoiceU(inquiry_type_map[cols.departments[i]], Sample(rng, n)[i])]])

GenStudentType ==
    GenDraw("student_type", "base_wait",
        [cols EXCEPT !.student_type =
            [i \in 1..n |-> ChoiceP(StudentTypes, StudentTypesP, Sample(rng, n)[i])]])

GenBaseWait ==
    GenDraw("base_wait", "wait_time_min",
        [cols EXCEPT !.base_wait =
            [i \in 1..n |-> Exponential(800, Sample(rng, n)[i])]])

GenWaitTime ==
    /\ gpc = "wait_time_min"
    /\ GenCompute("wait_time_min", "base_service",
        [cols EXCEPT !.wait_time_min =
            [i \in 1..n |->
                WaitTimeMin(cols.base_wait[i], cols.channel[i],
                            cols.quarter[i], cols.months[i])]])

GenBaseService ==
    GenDraw("base_service", "service_time_min",
        [cols EXCEPT !.base_service =
            [i \in 1..n |-> Normal(1200, 500, Sample(rng, n)[i])]])

GenServiceTime ==
    /\ gpc = "service_time_min"
    /\ GenCompute("service_time_min", "resolution",
        [cols EXCEPT !.service_time_min =
            [i \in 1..n |->
                ServiceTimeMin(cols.base_service[i], cols.departments[i],
                               cols.channel[i])]])

GenResolution ==
    GenDraw("resolution", "fcr_boost",
        [cols EXCEPT !.resolution =
            [i \in 1..n |-> ChoiceP(Resolutions, ResolutionsP, Sample(rng, n)[i])]])

GenFcrBoost ==
    /\ gpc = "fcr_boost"
    /\ GenCompute("fcr_boost", "base_sat",
        [cols EXCEPT !.fcr_boost =
            [i \in 1..n |-> FcrBoost(cols.departments[i])]])

GenBaseSat ==
    GenDraw("base_sat", "satisfaction",
        [cols EXCEPT !.base_sat =
            [i \in 1..n |-> Normal(380, 80, Sample(rng, n)[i])]])

GenSatisfaction ==
    /\ gpc = "satisfaction"
    /\ GenCompute("satisfaction", "escalated",
        [cols EXCEPT !.satisfaction =
            [i \in 1..n |->
                Satisfaction(cols.base_sat[i], cols.resolution[i],
                             cols.wait_time_min[i])]])

GenEscalated ==
    /\ gpc = "escalated"
    /\ GenCompute("escalated", "callback",
        [cols EXCEPT !.escalated =
            [i \in 1..n |-> Escalated(cols.resolution[i])]])

GenCallback ==
    /\ gpc = "callback"
    /\ GenDraw("callback", "df",
        [cols EXCEPT !.callback =
            [i \in 1..n |->
                Callback(cols.resolution[i],
                         ChoiceP(YesNo, YesNoP, Sample(rng, n)[i]))]])

\* pd.DataFrame({...}): row i of the table
DfRow(c, i) ==
    [inquiry_id |-> 10000 + i,
     department |-> c.departments[i],
     inquiry_type |-> c.inquiry_types[i],
     channel |-> c.channel[i],
     student_type |-> c.student_type[i],
     quarter |-> c.quarter[i],
     month |-> c.months[i],
     day_of_week |-> c.day_of_week[i],
     time_slot |-> c.hour[i],
     staff_member |-> c.staff[i],
     wait_time_min |-> c.wait_time_min[i],
     service_time_min |-> c.service_time_min[i],
     resolution |-> c.resolution[i],
     escalated |-> c.escalated[i],
     callback_required |-> c.callback[i],
     satisfaction_score |-> c.satisfaction[i]]

GenBuildDf ==
    /\ gpc = "df"
    /\ GenCompute("df", "to_csv",
        [cols EXCEPT !.df = [i \in 1..n |-> DfRow(cols, i)]])

\* df.to_csv(path, index=False): the file now holds the table; runs keeps
\* what each finished run wrote
GenSave ==
    /\ gpc = "to_csv"
    /\ gpc' = "print"
    /\ csv' = cols.df
    /\ runs' = Append(runs, cols.df)
    /\ UNCHANGED <<rng, cols, rowVars, repVars>>

\* the closing summary prints
GenPrint ==
    /\ gpc = "print"
    /\ gpc' = "exit"
    /\ UNCHANGED <<rng, cols, csv, runs, rowVars, repVars>>

\* the script is started again: a new process, a new unseeded source; the
\* file written before is still there
GenRerun ==
    /\ gpc = "exit"
    /\ Len(runs) < MaxRuns
    /\ gpc' = "seed"
    /\ rng' \in Entropy
    /\ cols' = ColsBlank
    /\ UNCHANGED <<csv, runs, rowVars, repVars>>

----------------------------------------------------------------------------
(* The analytics report: arithmetic shared by its views                    *)

RECURSIVE SeqSum(_)
SeqSum(s) == IF s = <<>> THEN 0 ELSE Head(s) + SeqSum(Tail(s))

\* column col of table t
Col(t, col) == [i \in DOMAIN t |-> t[i][col]]

\* the values of column col present in t: the groups of t.groupby(col)
Keys(t, col) == {t[i][col] : i \in DOMAIN t}

\* the rows of one group
Group(t, col, key) == SelectSeq(t, LAMBDA r : r[col] = key)

\* a / b rounded to the nearest integer, ties to even (b > 0, a >= 0)
RoundDiv(a, b) ==
    LET q == a \div b
        m == a % b
    IN  IF 2 * m < b THEN q
        ELSE IF 2 * m > b THEN q + 1
        ELSE IF q % 2 = 0 THEN q ELSE q + 1

\* a mean of one-decimal values (tenths) as an exact fraction, in tenths
Mean(xs) == [num |-> SeqSum(xs), den |-> Len(xs)]

\* mean(...).round(2), in hundredths
Mean2(xs) == RoundDiv(10 * SeqSum(xs), Len(xs))

\* mean(...).round(1), in tenths
Mean1(xs) == RoundDiv(SeqSum(xs), Len(xs))

\* (c / t * 100) truncated to two decimals instead of rounded
PctTruncated(c, t) == (10000 * c) \div t

\* (c / t * 100).round(2), in hundredths of a percent
Pct(c, t) == RoundDiv(10000 * c, t)

IsFcr(r) == r.resolution = "Resolved on First Contact"

FcrCount(t) == Len(SelectSeq(t, IsFcr))

\* the sign of a/b - c/d for a, c >= 0 and b, d > 0, by continued fractions
\* (no product is formed, so no intermediate exceeds its operands)
RECURSIVE CmpFrac(_, _, _, _)
CmpFrac(a, b, c, d) ==
    LET qa == a \div b
        qc == c \div d
        ra == a % b
        rc == c % d
    IN  IF qa > qc THEN 1
        ELSE IF qa < qc THEN -1
        ELSE IF ra = 0 /\ rc = 0 THEN 0
        ELSE IF ra = 0 THEN -1
        ELSE IF rc = 0 THEN 1
        ELSE CmpFrac(d, rc, b, ra)

----------------------------------------------------------------------------
(* scipy.stats as the report uses it.  A p-value is kept as the bracket it *)
(* falls in: 0 (t infinite), PSmall (0 < p < 0.05), PLarge (0.05 <= p <    *)
(* 1), 1000 (t = 0), in thousandths, or NaN.  The bracket is decided       *)
(* exactly, by comparing t^2 with the squared two-sided 5% critical value  *)
(* of Student's t for the test's degrees of freedom.                       *)

\* the encoding of a float NaN (no number the report computes is this low)
NaN == -999
PSmall == 25
PLarge == 500
\* the report's significance level 0.05, in thousandths
Alpha == 50

\* x < y as floating point compares: false when x is NaN
FloatLess(x, y) == x # NaN /\ x < y

\* 100 * t(0.975, dof)^2 for dof = 1..30
TCrit2 ==
    <<16144, 1852, 1013, 771, 661, 599, 559, 532, 512, 496,
      484, 475, 467, 460, 454, 449, 445, 441, 438, 435,
      433, 430, 428, 426, 424, 423, 421, 419, 418, 417>>

Abs(x) == IF x < 0 THEN -x ELSE x

\* stats.ttest_ind(a, b): equal variances, two-sided.  With n1, n2 the sizes,
\* S the sums and Q the sums of squares:
\*   t^2 = D^2 * dof / ((n1 + n2) * V),  D = S1*n2 - S2*n1,
\*   V = n2*(n1*Q1 - S1^2) + n1*(n2*Q2 - S2^2),  dof = n1 + n2 - 2
TTestInd(a, b) ==
    LET n1 == Len(a)
        n2 == Len(b)
        S1 == SeqSum(a)
        S2 == SeqSum(b)
        Q1 == SeqSum([i \in DOMAIN a |-> a[i] * a[i]])
        Q2 == SeqSum([i \in DOMAIN b |-> b[i] * b[i]])
        D == S1 * n2 - S2 * n1
        V == n2 * (n1 * Q1 - S1 * S1) + n1 * (n2 * Q2 - S2 * S2)
        dof == n1 + n2 - 2
    IN  IF n1 = 0 \/ n2 = 0 \/ dof <= 0 THEN [diff |-> D, p |-> NaN]
        ELSE IF V = 0 THEN [diff |-> D, p |-> IF D = 0 THEN NaN ELSE 0]
        ELSE IF D = 0 THEN [diff |-> D, p |-> 1000]
        ELSE [diff |-> D,
              p |-> IF CmpFrac(D * D * dof, (n1 + n2) * V, TCrit2[dof], 100) > 0
                    THEN PSmall ELSE PLarge]

\* stats.pearsonr(x, y), for Len(x) >= 2.  With X, Y, C the n-fold sums of
\* squares and cross products, r = C / sqrt(X*Y) and
\*   t^2 = r^2 * dof / (1 - r^2) > c^2  iff  C^2 * (dof + c^2) > c^2 * X * Y
PearsonR(x, y) ==
    LET k == Len(x)
        Sx == SeqSum(x)
        Sy == SeqSum(y)
        X == k * SeqSum([i \in DOMAIN x |-> x[i] * x[i]]) - Sx * Sx
        Y == k * SeqSum([i \in DOMAIN y |-> y[i] * y[i]]) - Sy * Sy
        C == k * SeqSum([i \in DOMAIN x |-> x[i] * y[i]]) - Sx * Sy
        dof == k - 2
        sign == IF C < 0 THEN -1 ELSE IF C > 0 THEN 1 ELSE 0
    IN  IF X = 0 \/ Y = 0 THEN [sign |-> NaN, p |-> NaN]
        ELSE IF k = 2 THEN [sign |-> sign, p |-> 1000]
        ELSE IF C = 0 THEN [sign |-> 0, p |-> 1000]
        ELSE IF CmpFrac(Abs(C), X, Y, Abs(C)) = 0 THEN [sign |-> sign, p |-> 0]
        ELSE [sign |-> sign,
              p |-> IF CmpFrac(Abs(C) * (100 * dof + TCrit2[dof]), X,
                               TCrit2[dof] * Y, Abs(C)) > 0
                    THEN PSmall ELSE PLarge]

----------------------------------------------------------------------------
(* The report's views, each a function of the loaded table                 *)

\* pd.cut(..., bins=[0, 5, 10, 15, 20, 50]) with right=False: [a, b) bins
WaitBucketRightOpen(w) ==
    IF w < 0 \/ w >= 500 THEN "NaN"
    ELSE IF w < 50 THEN "0-5 min"
    ELSE IF w < 100 THEN "5-10 min"
    ELSE IF w < 150 THEN "10-15 min"
    ELSE IF w < 200 THEN "15-20 min"
    ELSE "20+ min"

\* pd.cut(wait_time_min, bins=[0, 5, 10, 15, 20, 50], labels=[...]): pandas'
\* defaults right=True, include_lowest=False make the bins (a, b]; a value in
\* no bin is NaN
WaitBucket(w) ==
    IF w <= 0 \/ w > 500 THEN "NaN"
    ELSE IF w <= 50 THEN "0-5 min"
    ELSE IF w <= 100 THEN "5-10 min"
    ELSE IF w <= 150 THEN "10-15 min"
    ELSE IF w <= 200 THEN "15-20 min"
    ELSE "20+ min"

\* df["wait_bucket"] = pd.cut(...)
WithWaitBucket(t) ==
    [i \in DOMAIN t |->
        [c \in DOMAIN t[i] \cup {"wait_bucket"} |->
            IF c = "wait_bucket" THEN WaitBucket(t[i].wait_time_min)
            ELSE t[i][c]]]

\* groupby("wait_bucket", observed=True): NaN rows belong to no group
SatByWait(t) ==
    [b \in Keys(t, "wait_bucket") \ {"NaN"} |->
        LET g == Group(t, "wait_bucket", b)
        IN  [count |-> Len(g), avg_sat |-> Mean2(Col(g, "satisfaction_score"))]]

DeptKpis(t) ==
    [d \in Keys(t, "department") |->
        LET g == Group(t, "department", d)
        IN  [volume |-> Len(g),
             avg_wait |-> Mean2(Col(g, "wait_time_min")),
             avg_service |-> Mean2(Col(g, "service_time_min")),
             fcr |-> Pct(FcrCount(g), Len(g)),
             avg_sat |-> Mean2(Col(g, "satisfaction_score"))]]

VolQuarter(t) ==
    [q \in Keys(t, "quarter") |->
        LET g == Group(t, "quarter", q)
        IN  [volume |-> Len(g), avg_wait |-> Mean1(Col(g, "wait_time_min"))]]

\* groupby(col).count().reindex(order): an absent label shows NaN
VolReindexed(t, col, order) ==
    [k \in Range(order) |->
        IF k \in Keys(t, col) THEN Len(Group(t, col, k)) ELSE NaN]

ChannelStats(t) ==
    [c \in Keys(t, "channel") |->
        LET g == Group(t, "channel", c)
        IN  [volume |-> Len(g),
             pct |-> Pct(Len(g), Len(t)),
             avg_wait |-> Mean2(Col(g, "wait_time_min")),
             avg_service |-> Mean2(Col(g, "service_time_min")),
             fcr |-> Pct(FcrCount(g), Len(g)),
             avg_sat |-> Mean2(Col(g, "satisfaction_score"))]]

\* the rows of staff_perf; their printed order (by avg_sat) is not kept
StaffPerf(t) ==
    [m \in Keys(t, "staff_member") |->
        LET g == Group(t, "staff_member", m)
        IN  [interactions |-> Len(g),
             avg_wait |-> Mean2(Col(g, "wait_time_min")),
             avg_service |-> Mean2(Col(g, "service_time_min")),
             fcr |-> Pct(FcrCount(g), Len(g)),
             avg_sat |-> Mean2(Col(g, "satisfaction_score")),
             escalations |-> Len(SelectSeq(g, LAMBDA r : r.escalated = "Yes"))]]

\* the rows of sat_by_res; their printed order (by value) is not kept
SatByRes(t) ==
    [x \in Keys(t, "resolution") |->
        Mean(Col(Group(t, "resolution", x), "satisfaction_score"))]

\* the heatmap of section 2 is drawn with fmt="d": the pivot must hold
\* integers, which it does only when no (day, slot) cell is missing
AllCellsPresent(t) ==
    \A d \in Range(Days) : \A h \in Range(Hours) :
        \E i \in DOMAIN t : t[i].day_of_week = d /\ t[i].time_slot = h

Images(log) == SelectSeq(log, LAMBDA e : e # "mkdir")

\* df.groupby("department") sorts its keys: the row order of dept_kpis
DepartmentsSorted ==
    <<"Admissions", "Financial Aid", "General Inquiry", "Registrar",
      "Student Business Services">>

\* df.groupby(["day_of_week", "time_slot"]) sorts its keys, by day and then
\* by slot, each as text
DaysSorted == <<"Friday", "Monday", "Thursday", "Tuesday", "Wednesday">>

HoursSorted == <<"10-12 PM", "12-2 PM", "2-4 PM", "8-10 AM">>

GroupedPairs ==
    [i \in 1..(Len(DaysSorted) * Len(HoursSorted)) |->
        <<DaysSorted[((i - 1) \div Len(HoursSorted)) + 1],
          HoursSorted[((i - 1) % Len(HoursSorted)) + 1]>>]

\* a sequence given by a rule, as the list of its values
Rows(f) == f \o <<>>

\* the rows of one (day, slot) group
PairGroup(t, pr) ==
    SelectSeq(t, LAMBDA r : r.day_of_week = pr[1] /\ r.time_slot = pr[2])

\* df.groupby(["day_of_week", "time_slot"]).agg(volume, avg_wait).round(1):
\* one row per pair present, in key order
PeakGrouped(t) ==
    LET present == SelectSeq(GroupedPairs, LAMBDA pr : PairGroup(t, pr) # <<>>)
    IN  Rows([i \in DOMAIN present |->
            LET g == PairGroup(t, present[i])
            IN  [day |-> present[i][1], slot |-> present[i][2],
                 volume |-> Len(g),
                 avg_wait |-> Mean1(Col(g, "wait_time_min"))]])

\* the widest span (last index minus first) numpy's quicksort sorts by
\* insertion, which keeps rows of equal key in place; a wider array is
\* partitioned first, which moves them
SmallQuicksort == 16

\* .sort_values("volume") with ascending left at its default True
SortValuesAscending(view, shift) ==
    LET v == Rows(view)
        L == Len(v)
        sh == IF L - 1 > SmallQuicksort THEN shift ELSE 0
        key == Rows([i \in 1..L |->
                   v[i].volume * (L + 1) + (((i - 1 + sh) % L) + 1)])
        pos == Rows([i \in 1..L |->
                   1 + Cardinality({j \in 1..L : key[j] < key[i]})])
    IN  Rows([k \in 1..L |-> v[CHOOSE i \in 1..L : pos[i] = k]])

\* .sort_values("volume", ascending=False): kind is left at its default
\* "quicksort", which is not a stable sort, so in a view whose last index is
\* past SmallQuicksort the order of rows of equal volume is not fixed by the
\* call.  Rows of equal volume come out by grouped position rotated by shift
\* places: 0, the order a stable sort gives, or 1, the view's last row ahead
\* of its equals.
SortValues(view, shift) ==
    LET v == Rows(view)
        L == Len(v)
        sh == IF L - 1 > SmallQuicksort THEN shift ELSE 0
        \* volume first, then the rotated grouped position, as one number
        key == Rows([i \in 1..L |->
                   v[i].volume * (L + 1) + (L - (((i - 1 + sh) % L) + 1))])
        pos == Rows([i \in 1..L |->
                   1 + Cardinality({j \in 1..L : key[j] > key[i]})])
    IN  Rows([k \in 1..L |-> v[CHOOSE i \in 1..L : pos[i] = k]])

\* DataFrame.head(k)
HeadRows(view, k) == SubSeq(view, 1, IF Len(view) < k THEN Len(view) ELSE k)

\* one column of a grouped view, as a Series keyed by group
ViewCol(view, fld) == [k \in DOMAIN view |-> view[k][fld]]

\* the labels of a Series in its row order, those holding NaN left out
Present(order, ser) ==
    SelectSeq(order, LAMBDA k : k \in DOMAIN ser /\ ser[k] # NaN)

\* Series.idxmax(): the label of the first row holding the maximum, NaN
\* skipped
IdxMax(order, ser) ==
    LET ks == Present(order, ser)
    IN  IF ks = <<>> THEN "NaN"
        ELSE ks[CHOOSE i \in DOMAIN ks :
                    /\ \A j \in DOMAIN ks : ser[ks[j]] <= ser[ks[i]]
                    /\ \A j \in 1..(i - 1) : ser[ks[j]] < ser[ks[i]]]

\* Series.idxmin(): the label of the first row holding the minimum, NaN
\* skipped
IdxMin(order, ser) ==
    LET ks == Present(order, ser)
    IN  IF ks = <<>> THEN "NaN"
        ELSE ks[CHOOSE i \in DOMAIN ks :
                    /\ \A j \in DOMAIN ks : ser[ks[j]] >= ser[ks[i]]
                    /\ \A j \in 1..(i - 1) : ser[ks[j]] > ser[ks[i]]]

\* a.mean() - b.mean() of two samples of one-decimal values, as an exact
\* fraction in tenths; the mean of an empty sample is NaN
MeanDiff(a, b) ==
    IF a = <<>> \/ b = <<>> THEN NaN
    ELSE [num |-> SeqSum(a) * Len(b) - SeqSum(b) * Len(a),
          den |-> Len(a) * Len(b)]

\* (df["channel"] == c).mean() * 100, as an exact fraction
ChannelShare(t, c) ==
    [num |-> 100 * Len(SelectSeq(t, LAMBDA r : r.channel = c)), den |-> Len(t)]

----------------------------------------------------------------------------
(* Input files of the report.  A parsed table is a stock of 20 rows, one   *)
(* per (day, slot) cell, followed by up to MaxFree rows chosen freely from *)
(* FreeRows, or the free rows alone.  The free rows put wait times on and  *)
(* around every bin edge and vary every column a view groups by.           *)

\* freely chosen rows per table
MaxFree == 2

InRow(d, ch, day, slot, w, res, s, cb) ==
    [inquiry_id |-> 0,
     department |-> d,
     inquiry_type |-> inquiry_type_map[d][1],
     channel |-> ch,
     student_type |-> "Undergraduate",
     quarter |-> "Winter 2025",
     month |-> "Feb",
     day_of_week |-> day,
     time_slot |-> slot,
     staff_member |-> "Staff A",
     wait_time_min |-> w,
     service_time_min |-> 120,
     resolution |-> res,
     escalated |-> Escalated(res),
     callback_required |-> Callback(res, cb),
     satisfaction_score |-> s]

\* the stock rows; "split" separates first-contact rows from the others in
\* wait and satisfaction and has no walk-in row, "flat" gives every row the
\* same wait and score
StockRow(kind, k) ==
    LET di == ((k - 1) \div 4) + 1
        si == ((k - 1) % 4) + 1
        res == IF k % 2 = 1 THEN Resolutions[1]
               ELSE Resolutions[2 + ((k \div 2) % 3)]
        fcr == res = "Resolved on First Contact"
    IN  InRow(Departments[(k % 5) + 1],
              IF kind = "split" THEN Channels[2 + ((di + si) % 3)]
              ELSE Channels[((di + si) % 4) + 1],
              Days[di], Hours[si],
              IF kind = "flat" THEN 220 ELSE IF fcr THEN 210 ELSE 300,
              res,
              IF kind = "flat" THEN 31 ELSE IF fcr THEN 36 ELSE 31,
              "Yes")

Stock(kind) == [k \in 1..20 |-> StockRow(kind, k)]

Stocks == {<<>>, Stock("flat"), Stock("split")}

FreeRows ==
    {InRow("Registrar", "Phone", "Monday", "8-10 AM", 0,
           "Resolved on First Contact", 45, "No"),
     InRow("Registrar", "Email", "Tuesday", "10-12 PM", 49,
           "Resolved on First Contact", 40, "No"),
     InRow("Financial Aid", "Walk-In", "Wednesday", "12-2 PM", 50,
           "Follow-Up Required", 38, "Yes"),
     InRow("Admissions", "Virtual Appointment", "Thursday", "2-4 PM", 100,
           "Referred to Another Office", 35, "No"),
     InRow("General Inquiry", "Walk-In", "Friday", "8-10 AM", 150,
           "Escalated to Department", 30, "No"),
     InRow("Student Business Services", "Phone", "Monday", "10-12 PM", 200,
           "Resolved on First Contact", 33, "No"),
     InRow("Registrar", "Email", "Tuesday", "12-2 PM", 201,
           "Follow-Up Required", 32, "No"),
     InRow("Financial Aid", "Walk-In", "Wednesday", "2-4 PM", 450,
           "Escalated to Department", 10, "No"),
     InRow("Financial Aid", "Walk-In", "Thursday", "8-10 AM", 500,
           "Resolved on First Contact", 31, "No"),
     InRow("Financial Aid", "Phone", "Friday", "10-12 PM", 220,
           "Resolved on First Contact", 32, "No")}

FreeSeqs == UNION {[1..k -> FreeRows] : k \in 0..MaxFree}

\* inquiry_id is sequential from 10001
Numbered(t) == [i \in DOMAIN t |-> [t[i] EXCEPT !.inquiry_id = 10000 + i]]

InputTables ==
    {Numbered(b \o f) : b \in Stocks, f \in FreeSeqs} \ {<<>>}

InputFiles ==
    {[state |-> "missing", table |-> <<>>],
     [state |-> "malformed", table |-> <<>>]}
    \cup {[state |-> "ok", table |-> t] : t \in InputTables}

\* a row the generator can have written at position i
GeneratorRow(r, i) ==
    /\ r.inquiry_id = 10000 + i
    /\ r.department \in Range(Departments)
    /\ r.inquiry_type \in Range(inquiry_type_map[r.department])
    /\ r.channel \in Range(Channels)
    /\ r.student_type \in Range(StudentTypes)
    /\ r.quarter \in Range(Quarters)
    /\ r.month \in Range(month_map[r.quarter])
    /\ r.day_of_week \in Range(Days)
    /\ r.time_slot \in Range(Hours)
    /\ r.staff_member \in Range(Staff)
    /\ 10 * WaitAdj(r.channel, r.quarter, r.month) <= r.wait_time_min
    /\ r.wait_time_min <= 450
    /\ 20 <= r.service_time_min /\ r.service_time_min <= 400
    /\ r.resolution \in Range(Resolutions)
    /\ r.escalated = Escalated(r.resolution)
    /\ r.callback_required \in {Callback(r.resolution, "Yes"), "No"}
    /\ 10 <= r.satisfaction_score /\ r.satisfaction_score <= 50

GeneratorTable(t) == \A i \in DOMAIN t : GeneratorRow(t[i], i)

----------------------------------------------------------------------------
(* The report script, section by section                                   *)

NsBlank ==
    [total |-> 0, avg_wait |-> <<>>, avg_service |-> <<>>, fcr_rate |-> <<>>,
     escalation_rate |-> <<>>, avg_sat |-> <<>>, callback_rate |-> <<>>,
     dept_kpis |-> <<>>, vol_quarter |-> <<>>, vol_day |-> <<>>,
     vol_time |-> <<>>, channel_stats |-> <<>>, staff_perf |-> <<>>,
     sat_by_res |-> <<>>, fcr_sat |-> <<>>, non_fcr_sat |-> <<>>,
     t_diff |-> 0, p_val |-> NaN, t_flag |-> "-",
     corr |-> NaN, corr_p |-> NaN, corr_label |-> "-",
     sat_by_wait |-> <<>>, finding1_significant |-> FALSE,
     highest_wait_dept |-> "-", lowest_fcr_dept |-> "-", peak_day |-> "-",
     findings |-> <<>>, recommendations |-> <<>>,
     peak_combo |-> <<>>, peak_top |-> <<>>]

\* os.makedirs(output_dir, exist_ok=True) left out
RepMakedirsOmitted ==
    /\ pc = "makedirs"
    /\ pc' = "read_csv"
    /\ UNCHANGED <<input, dir_exists, fslog, out, df, ns, reads, rowVars, genVars>>

\* lines 22-23: os.makedirs(output_dir, exist_ok=True)
RepMakedirs ==
    /\ pc = "makedirs"
    /\ pc' = "read_csv"
    /\ dir_exists' = TRUE
    /\ fslog' = IF dir_exists THEN fslog ELSE Append(fslog, "mkdir")
    /\ UNCHANGED <<input, out, df, ns, reads, rowVars, genVars>>

\* pd.read_csv inside a try/except that falls back to an empty table
RepReadCsvSwallowed ==
    /\ pc = "read_csv"
    /\ reads' = reads + 1
    /\ pc' = "header"
    /\ df' = input.table
    /\ UNCHANGED <<input, dir_exists, fslog, out, ns, rowVars, genVars>>

\* line 25: pd.read_csv(path); a missing or unparsable file raises and the
\* script ends there
RepReadCsv ==
    /\ pc = "read_csv"
    /\ reads' = reads + 1
    /\ IF input.state = "ok"
       THEN pc' = "header" /\ df' = input.table
       ELSE pc' = "failed" /\ df' = df
    /\ UNCHANGED <<input, dir_exists, fslog, out, ns, rowVars, genVars>>

\* lines 27-32: the banner
RepHeader ==
    /\ pc = "header"
    /\ pc' = "section1"
    /\ out' = Append(out, "header")
    /\ UNCHANGED <<input, dir_exists, fslog, df, ns, reads, rowVars, genVars>>

\* lines 37-98: global KPIs, per-department KPIs, chart 01
RepSection1 ==
    /\ pc = "section1"
    /\ pc' = "section2"
    /\ ns' = [ns EXCEPT
                !.total = Len(df),
                !.avg_wait = Mean(Col(df, "wait_time_min")),
                !.avg_service = Mean(Col(df, "service_time_min")),
                !.fcr_rate = [num |-> 100 * FcrCount(df), den |-> Len(df)],
                !.escalation_rate =
                    [num |-> 100 * Len(SelectSeq(df, LAMBDA r : r.escalated = "Yes")),
                     den |-> Len(df)],
                !.avg_sat = Mean(Col(df, "satisfaction_score")),
                !.callback_rate =
                    [num |-> 100 * Len(SelectSeq(df,
                                 LAMBDA r : r.callback_required = "Yes")),
                     den |-> Len(df)],
                !.dept_kpis = DeptKpis(df)]
    /\ out' = Append(out, "1")
    /\ fslog' = Append(fslog, "01_kpi_dashboard.png")
    /\ UNCHANGED <<input, dir_exists, df, reads, rowVars, genVars>>

\* lines 103-153: volume views, the five busiest (day, slot) pairs, then the
\* heatmap, chart 02; the heatmap raises on a pivot with a missing cell, after
\* the section's text is out
RepSection2 ==
    /\ pc = "section2"
    /\ \E shift \in {0, 1} :
         LET peak_combo == SortValues(PeakGrouped(df), shift)
         IN  ns' = [ns EXCEPT
                !.vol_quarter = VolQuarter(df),
                !.vol_day = VolReindexed(df, "day_of_week", Days),
                !.vol_time = VolReindexed(df, "time_slot", Hours),
                !.peak_combo = peak_combo,
                !.peak_top = HeadRows(peak_combo, 5)]
    /\ out' = Append(out, "2")
    /\ IF AllCellsPresent(df)
       THEN pc' = "section3" /\ fslog' = Append(fslog, "02_volume_heatmap.png")
       ELSE pc' = "failed" /\ fslog' = fslog
    /\ UNCHANGED <<input, dir_exists, df, reads, rowVars, genVars>>

\* lines 158-198: channel view, chart 03
RepSection3 ==
    /\ pc = "section3"
    /\ pc' = "section4"
    /\ ns' = [ns EXCEPT !.channel_stats = ChannelStats(df)]
    /\ out' = Append(out, "3")
    /\ fslog' = Append(fslog, "03_channel_analysis.png")
    /\ UNCHANGED <<input, dir_exists, df, reads, rowVars, genVars>>

\* section 4 with its plt.savefig lost
RepSection4NoChart ==
    /\ pc = "section4"
    /\ pc' = "section5"
    /\ ns' = [ns EXCEPT !.staff_perf = StaffPerf(df)]
    /\ out' = Append(out, "4")
    /\ UNCHANGED <<input, dir_exists, fslog, df, reads, rowVars, genVars>>

\* lines 203-238: staff view, chart 04
RepSection4 ==
    /\ pc = "section4"
    /\ pc' = "section5"
    /\ ns' = [ns EXCEPT !.staff_perf = StaffPerf(df)]
    /\ out' = Append(out, "4")
    /\ fslog' = Append(fslog, "04_staff_performance.png")
    /\ UNCHANGED <<input, dir_exists, df, reads, rowVars, genVars>>

\* lines 243-304: satisfaction by resolution, t-test, correlation, wait
\* buckets, chart 05
RepSection5 ==
    /\ pc = "section5"
    /\ pc' = "section6"
    /\ LET fcr == Col(SelectSeq(df, IsFcr), "satisfaction_score")
           non == Col(SelectSeq(df, LAMBDA r : ~IsFcr(r)), "satisfaction_score")
           tt == TTestInd(fcr, non)
           pr == PearsonR(Col(df, "wait_time_min"), Col(df, "satisfaction_score"))
           bucketed == WithWaitBucket(df)
       IN  /\ df' = bucketed
           /\ ns' = [ns EXCEPT
                !.sat_by_res = SatByRes(df),
                !.fcr_sat = fcr,
                !.non_fcr_sat = non,
                !.t_diff = tt.diff,
                !.p_val = tt.p,
                !.t_flag = IF FloatLess(tt.p, Alpha) THEN "Yes (p < 0.05)" ELSE "No",
                !.corr = pr.sign,
                !.corr_p = pr.p,
                !.corr_label =
                    IF FloatLess(pr.sign, 0) /\ FloatLess(pr.p, Alpha)
                    THEN "Significant negative correlation"
                    ELSE "Not significant",
                !.sat_by_wait = SatByWait(bucketed)]
    /\ out' = Append(out, "5")
    /\ fslog' = Append(fslog, "05_satisfaction_drivers.png")
    /\ UNCHANGED <<input, dir_exists, reads, rowVars, genVars>>

\* lines 309-333: findings and recommendations.  The records hold the values
\* handed to the template, before formatting.  Finding 1 states
\* "(statistically significant, p < 0.05)" as fixed text, findings 2 and 5 and
\* the peak slot "10-12 PM" of finding 4 and recommendation 1 are fixed text
\* too; finding 2's percentage is computed here from the channel column.
RepSection6 ==
    /\ pc = "section6"
    /\ pc' = "complete"
    /\ LET highest_wait_dept ==
               IdxMax(DepartmentsSorted, ViewCol(ns.dept_kpis, "avg_wait"))
           lowest_fcr_dept ==
               IdxMin(DepartmentsSorted, ViewCol(ns.dept_kpis, "fcr"))
           peak_day == IdxMax(Days, ns.vol_day)
       IN  ns' = [ns EXCEPT
                !.finding1_significant = TRUE,
                !.highest_wait_dept = highest_wait_dept,
                !.lowest_fcr_dept = lowest_fcr_dept,
                !.peak_day = peak_day,
                !.findings =
                    [fcr_rate |-> ns.fcr_rate,
                     sat_diff |-> MeanDiff(ns.fcr_sat, ns.non_fcr_sat),
                     walkin_pct |-> ChannelShare(df, "Walk-In"),
                     walkin_highest_wait |-> TRUE,
                     wait_dept |-> highest_wait_dept,
                     wait_dept_avg |-> ns.dept_kpis[highest_wait_dept].avg_wait,
                     peak_day |-> peak_day,
                     peak_slot |-> "10-12 PM",
                     escalation_rate |-> ns.escalation_rate],
                !.recommendations =
                    [peak_day |-> peak_day,
                     peak_slot |-> "10-12 PM",
                     fcr_dept |-> lowest_fcr_dept]]
    /\ out' = Append(out, "6")
    /\ UNCHANGED <<input, dir_exists, fslog, df, reads, rowVars, genVars>>

\* lines 335-337
RepComplete ==
    /\ pc = "complete"
    /\ pc' = "done"
    /\ out' = Append(out, "Analysis complete")
    /\ UNCHANGED <<input, dir_exists, fslog, df, ns, reads, rowVars, genVars>>

----------------------------------------------------------------------------
(* Specifications.  Each follows one of the three state machines above and *)
(* holds the other two idle.                                               *)

GenIdle ==
    /\ gpc = "off"
    /\ rng = 0
    /\ cols = <<>>
    /\ csv = <<>>
    /\ runs = <<>>

RowIdle ==
    /\ rstep = "off"
    /\ row = RowBlank

RepIdle ==
    /\ pc = "off"
    /\ input = [state |-> "missing", table |-> <<>>]
    /\ dir_exists = FALSE
    /\ fslog = <<>>
    /\ out = <<>>
    /\ df = <<>>
    /\ ns = NsBlank
    /\ reads = 0

InitRow ==
    /\ rstep = "departments"
    /\ row = RowBlank
    /\ GenIdle
    /\ RepIdle

NextRow ==
    \/ RowDepartments
    \/ RowChannel
    \/ RowQuarter
    \/ RowMonths
    \/ RowBaseWait
    \/ RowWaitTime
    \/ RowBaseService
    \/ RowServiceTime
    \/ RowResolution
    \/ RowFcrBoost
    \/ RowBaseSat
    \/ RowSatisfaction
    \/ RowEscalated
    \/ RowCallback

SpecRow == InitRow /\ [][NextRow]_vars

InitGen ==
    /\ gpc = "seed"
    /\ rng \in Entropy
    /\ cols = ColsBlank
    /\ csv = <<>>
    /\ runs = <<>>
    /\ RowIdle
    /\ RepIdle

NextGen ==
    \/ GenSeed
    \/ GenDepartments
    \/ GenChannel
    \/ GenQuarter
    \/ GenMonths
    \/ GenDayOfWeek
    \/ GenHour
    \/ GenStaff
    \/ GenInquiryTypes
    \/ GenStudentType
    \/ GenBaseWait
    \/ GenWaitTime
    \/ GenBaseService
    \/ GenServiceTime
    \/ GenResolution
    \/ GenFcrBoost
    \/ GenBaseSat
    \/ GenSatisfaction
    \/ GenEscalated
    \/ GenCallback
    \/ GenBuildDf
    \/ GenSave
    \/ GenPrint
    \/ GenRerun

SpecGen == InitGen /\ [][NextGen]_vars

InitReport ==
    /\ pc = "makedirs"
    /\ input \in InputFiles
    /\ dir_exists \in BOOLEAN
    /\ fslog = <<>>
    /\ out = <<>>
    /\ df = <<>>
    /\ ns = NsBlank
    /\ reads = 0
    /\ RowIdle
    /\ GenIdle

NextReport ==
    \/ RepMakedirs
    \/ RepReadCsv
    \/ RepHeader
    \/ RepSection1
    \/ RepSection2
    \/ RepSection3
    \/ RepSection4
    \/ RepSection5
    \/ RepSection6
    \/ RepComplete

SpecReport == InitReport /\ [][NextReport]_vars

----------------------------------------------------------------------------
(* Claims about the rows of the generator                                  *)

\* C1: in every generated row, escalated is "Yes" exactly when resolution is
\* "Escalated to Department", and "No" otherwise.
C1_EscalatedIffResolution ==
    RowPast("escalated") =>
        /\ row.escalated \in {"Yes", "No"}
        /\ row.escalated = "Yes" <=> row.resolution = "Escalated to Department"

C1_Witness ==
    /\ rstep = "done"
    /\ row.resolution = "Escalated to Department"
    /\ row.escalated = "Yes"

\* C2: in every generated row, callback_required = "Yes" implies resolution =
\* "Follow-Up Required"; a row with any other resolution has callback_required
\* = "No" whatever its entry of the Yes/No sample was.
C2_CallbackImpliesFollowUp ==
    RowPast("callback") =>
        /\ row.callback_required \in {"Yes", "No"}
        /\ row.callback_required = "Yes" => row.resolution = "Follow-Up Required"
        /\ row.resolution # "Follow-Up Required" => row.callback_required = "No"

C2_Witness ==
    /\ rstep = "done"
    /\ row.callback_draw = "Yes"
    /\ row.resolution # "Follow-Up Required"
    /\ row.callback_required = "No"

\* C3: in every generated row the stored values, after clip and round to one
\* decimal, satisfy 0 <= wait_time_min <= 45, 2 <= service_time_min <= 40 and
\* 1 <= satisfaction_score <= 5, whatever the base draw and the adjustments.
C3_StoredRanges ==
    /\ RowPast("wait_time_min") =>
           (0 <= row.wait_time_min /\ row.wait_time_min <= 450)
    /\ RowPast("service_time_min") =>
           (20 <= row.service_time_min /\ row.service_time_min <= 400)
    /\ RowPast("satisfaction") =>
           (10 <= row.satisfaction /\ row.satisfaction <= 50)

\* a row whose three unclipped values all leave their range: wait above 45,
\* service below 2, satisfaction below 1
C3_Witness ==
    /\ rstep = "done"
    /\ row.base_wait + 100 * WaitAdj(row.channel, row.quarter, row.month) > 4500
    /\ row.base_service + 100 * ServiceAdj(row.department, row.channel) < 200
    /\ row.base_sat + SatAdj(row.resolution, row.wait_time_min) < 100
    /\ row.wait_time_min = 450
    /\ row.service_time_min = 20
    /\ row.satisfaction = 10

----------------------------------------------------------------------------
(* Claims about the generator's runs                                       *)

\* C4: two runs of the generator with the same seed and the same count n write
\* identical tables: the same n rows in the same order, every field equal.
C4_SameSeedSameTable ==
    \A i, j \in DOMAIN runs :
        /\ Len(runs[i]) = n
        /\ runs[i] = runs[j]

\* two runs have finished; the second has drawn its 14 samples of n values
C4_Witness ==
    /\ Len(runs) = 2
    /\ gpc = "exit"
    /\ rng = LcgIter(SeedState(42), 14 * n)
    /\ Len(runs[2]) = n

----------------------------------------------------------------------------
(* Claims about the report                                                 *)

\* section x has printed its text
Printed(x) == \E i \in DOMAIN out : out[i] = x

\* the sum of field fld over the rows of a view
RECURSIVE FieldSum(_, _)
FieldSum(f, fld) ==
    IF DOMAIN f = {} THEN 0
    ELSE LET k == CHOOSE x \in DOMAIN f : TRUE
         IN  f[k][fld] + FieldSum([x \in DOMAIN f \ {k} |-> f[x]], fld)

\* C5: for a generator-produced table the grouped views partition the rows:
\* the per-department volumes sum to the row count, and the per-channel
\* percentages sum to 100% up to the rounding of each entry to two decimals
\* (half a hundredth per channel).
C5_GroupsPartition ==
    (input.state = "ok" /\ GeneratorTable(input.table)) =>
        /\ Printed("1") => FieldSum(ns.dept_kpis, "volume") = Len(input.table)
        /\ Printed("3") =>
               2 * Abs(FieldSum(ns.channel_stats, "pct") - 10000)
                   <= Cardinality(DOMAIN ns.channel_stats)

\* a generator-produced table of several departments whose rounded channel
\* percentages do not add up to exactly 100.00
C5_Witness ==
    /\ Printed("3")
    /\ GeneratorTable(input.table)
    /\ Cardinality(DOMAIN ns.dept_kpis) >= 2
    /\ FieldSum(ns.dept_kpis, "volume") = Len(input.table)
    /\ FieldSum(ns.channel_stats, "pct") # 10000

\* the bucket the claim gives a wait w in [0, 50]: left-closed bins
LeftClosedBucket(w) ==
    IF w < 50 THEN "0-5 min"
    ELSE IF w < 100 THEN "5-10 min"
    ELSE IF w < 150 THEN "10-15 min"
    ELSE IF w < 200 THEN "15-20 min"
    ELSE "20+ min"

BucketLabels == {"0-5 min", "5-10 min", "10-15 min", "15-20 min", "20+ min"}

WaitsInRange(t) ==
    \A i \in DOMAIN t : 0 <= t[i].wait_time_min /\ t[i].wait_time_min <= 500

\* the count the view shows for bucket b: an absent bucket has no rows
BucketCount(b) ==
    IF b \in DOMAIN ns.sat_by_wait THEN ns.sat_by_wait[b].count ELSE 0

\* C6: the wait-bucket view puts every row with wait in [0, 50] in exactly one
\* of five left-closed buckets ([0,5), [5,10), [10,15), [15,20), [20,50]); each
\* bucket's count is the number of rows so assigned, so the counts sum to the
\* row count.
C6_LeftClosedBuckets ==
    (Printed("5") /\ WaitsInRange(input.table)) =>
        /\ \A b \in BucketLabels :
               BucketCount(b) =
                   Cardinality({i \in DOMAIN input.table :
                       LeftClosedBucket(input.table[i].wait_time_min) = b})
        /\ FieldSum(ns.sat_by_wait, "count") = Len(input.table)

AllAbove20(t) ==
    \A i \in DOMAIN t : 200 < t[i].wait_time_min /\ t[i].wait_time_min <= 500

\* C7 as stated: when every row has 20 < wait <= 50 the view holds only the
\* "20+ min" bucket, its count the row count and its mean satisfaction equal to
\* the global mean satisfaction.
C7_BucketMeanIsGlobalMean ==
    (Printed("5") /\ AllAbove20(input.table)) =>
        /\ DOMAIN ns.sat_by_wait = {"20+ min"}
        /\ ns.sat_by_wait["20+ min"].count = ns.total
        /\ ns.sat_by_wait["20+ min"].avg_sat * ns.avg_sat.den
               = 10 * ns.avg_sat.num

\* C7 amended: when every row has 20 < wait <= 50 the view holds only the
\* "20+ min" bucket, its count the row count and its mean satisfaction equal to
\* the global mean satisfaction rounded to two decimals.
C7_BucketMeanIsRoundedGlobalMean ==
    (Printed("5") /\ AllAbove20(input.table)) =>
        /\ DOMAIN ns.sat_by_wait = {"20+ min"}
        /\ ns.sat_by_wait["20+ min"].count = ns.total
        /\ ns.sat_by_wait["20+ min"].avg_sat
               = RoundDiv(10 * ns.avg_sat.num, ns.avg_sat.den)

\* an all-above-20 table reaching up to 50.0 whose global mean has more than
\* two decimals
C7_Witness ==
    /\ Printed("5")
    /\ AllAbove20(input.table)
    /\ \E i \in DOMAIN input.table : input.table[i].wait_time_min = 500
    /\ (10 * ns.avg_sat.num) % ns.avg_sat.den # 0
    /\ ns.sat_by_wait["20+ min"].count = Len(input.table)

ChartNames ==
    <<"01_kpi_dashboard.png", "02_volume_heatmap.png",
      "03_channel_analysis.png", "04_staff_performance.png",
      "05_satisfaction_drivers.png">>

\* the directory exists at every write, and where the run had to create it the
\* creation comes first
DirBeforeImages ==
    /\ Images(fslog) # <<>> => dir_exists
    /\ (\E i \in DOMAIN fslog : fslog[i] = "mkdir") => fslog[1] = "mkdir"

\* C8 as stated: a run that reaches "Analysis complete" has written exactly six
\* chart images, the output directory created before the first of them.
C8_SixImages ==
    /\ Printed("Analysis complete") =>
           Cardinality(Range(Images(fslog))) = 6
    /\ DirBeforeImages

\* C8 amended: a run that reaches "Analysis complete" has written exactly five
\* chart images (01 to 05, once each), the output directory created before the
\* first of them.
C8_FiveImages ==
    /\ Printed("Analysis complete") => Images(fslog) = ChartNames
    /\ DirBeforeImages

\* a finished run that had to create the directory
C8_Witness ==
    /\ pc = "done"
    /\ Printed("Analysis complete")
    /\ fslog = <<"mkdir">> \o ChartNames

\* C9: every significance statement of the report is made only when its
\* p-value is below 0.05: the t-test flag, the correlation label, and finding
\* 1's "statistically significant, p < 0.05".
C9_ThresholdGovernsAll ==
    /\ (Printed("5") /\ ns.t_flag = "Yes (p < 0.05)") =>
           FloatLess(ns.p_val, Alpha)
    /\ (Printed("5") /\ ns.corr_label = "Significant negative correlation") =>
           FloatLess(ns.corr_p, Alpha)
    /\ (Printed("6") /\ ns.finding1_significant) =>
           FloatLess(ns.p_val, Alpha)

\* a fraction formatted with no decimals
Fmt0(x) == RoundDiv(x.num, x.den)

\* C11: every data-dependent value of the findings and recommendations is a
\* lookup in the views of the earlier sections: the highest-wait department is
\* an argmax of the per-department mean wait, the lowest-FCR department an
\* argmin of the per-department FCR rate, the peak day an argmax of the
\* day-of-week volume; the rates are the global KPIs, the named peak slot is a
\* peak of the time-slot volume, and the walk-in percentage is the channel
\* view's entry; nothing is computed from the table rows.
C11_NarrativeIsLookup ==
    Printed("6") =>
        /\ ns.highest_wait_dept \in DOMAIN ns.dept_kpis
        /\ \A d \in DOMAIN ns.dept_kpis :
               ns.dept_kpis[d].avg_wait
                   <= ns.dept_kpis[ns.highest_wait_dept].avg_wait
        /\ ns.lowest_fcr_dept \in DOMAIN ns.dept_kpis
        /\ \A d \in DOMAIN ns.dept_kpis :
               ns.dept_kpis[d].fcr >= ns.dept_kpis[ns.lowest_fcr_dept].fcr
        /\ ns.peak_day \in Range(Days)
        /\ \A d \in Range(Days) : ns.vol_day[d] <= ns.vol_day[ns.peak_day]
        /\ ns.findings.wait_dept = ns.highest_wait_dept
        /\ ns.findings.wait_dept_avg
               = ns.dept_kpis[ns.highest_wait_dept].avg_wait
        /\ ns.findings.peak_day = ns.peak_day
        /\ ns.recommendations.peak_day = ns.peak_day
        /\ ns.recommendations.fcr_dept = ns.lowest_fcr_dept
        /\ ns.findings.fcr_rate = ns.fcr_rate
        /\ ns.findings.escalation_rate = ns.escalation_rate
        /\ \A h \in Range(Hours) :
               /\ ns.vol_time[h] <= ns.vol_time[ns.findings.peak_slot]
               /\ ns.vol_time[h] <= ns.vol_time[ns.recommendations.peak_slot]
        /\ "Walk-In" \in DOMAIN ns.channel_stats
        /\ Fmt0(ns.findings.walkin_pct)
               = RoundDiv(ns.channel_stats["Walk-In"].pct, 100)

\* the (day, slot) pairs of the loaded table
PairsPresent ==
    {<<input.table[i].day_of_week, input.table[i].time_slot>> :
        i \in DOMAIN input.table}

PairOf(e) == <<e.day, e.slot>>

\* the position of a pair in the grouped view
GroupedPos(pr) == CHOOSE i \in DOMAIN GroupedPairs : GroupedPairs[i] = pr

\* the listing has min(5, number of pairs) entries, each a pair of the table
\* with its row count, no pair twice
ListsPairsOnce(top) ==
    LET k == Cardinality(PairsPresent)
    IN  /\ Len(top) = IF k < 5 THEN k ELSE 5
        /\ \A i \in DOMAIN top :
               /\ PairOf(top[i]) \in PairsPresent
               /\ top[i].volume = Len(PairGroup(input.table, PairOf(top[i])))
        /\ \A i, j \in DOMAIN top : i < j => PairOf(top[i]) # PairOf(top[j])

\* the listing is in non-increasing order of row count and no pair left out
\* has a strictly larger count than a listed one
ListsLargestFirst(top) ==
    /\ \A i, j \in DOMAIN top : i < j => top[i].volume >= top[j].volume
    /\ \A pr \in PairsPresent :
           LET count == Len(PairGroup(input.table, pr))
           IN  (\A i \in DOMAIN top : PairOf(top[i]) # pr) =>
                   \A i \in DOMAIN top : count <= top[i].volume

\* listed pairs of equal count stand in the order of the grouped view
TiesInGroupedOrder(top) ==
    \A i, j \in DOMAIN top :
        (i < j /\ top[i].volume = top[j].volume) =>
            GroupedPos(PairOf(top[i])) < GroupedPos(PairOf(top[j]))

\* C12 as stated: the peak-period listing has min(5, number of distinct
\* (day, slot) pairs of the table) entries, each pair at most once, in
\* non-increasing order of row count; no pair left out has a strictly larger
\* count than a listed one; and listed pairs of equal count stand in the order
\* of the grouped view.
C12_PeakListingStable ==
    Printed("2") =>
        /\ ListsPairsOnce(ns.peak_top)
        /\ ListsLargestFirst(ns.peak_top)
        /\ TiesInGroupedOrder(ns.peak_top)

\* C12 amended: the peak-period listing has min(5, number of distinct
\* (day, slot) pairs of the table) entries, each pair at most once, in
\* non-increasing order of row count, and no pair left out has a strictly
\* larger count than a listed one; pairs of equal count may stand in any order.
C12_PeakListing ==
    Printed("2") =>
        /\ ListsPairsOnce(ns.peak_top)
        /\ ListsLargestFirst(ns.peak_top)

\* five of more than five pairs are listed, the busiest first, and two of
\* equal count stand against the grouped order
C12_Witness ==
    /\ Printed("2")
    /\ Cardinality(PairsPresent) > 5
    /\ Len(ns.peak_top) = 5
    /\ ns.peak_top[1].volume > ns.peak_top[2].volume
    /\ ListsLargestFirst(ns.peak_top)
    /\ ~TiesInGroupedOrder(ns.peak_top)

\* C10: with the input file missing or unparsable the run ends in a fatal
\* error at the read, which is tried once: nothing has been printed, no image
\* written and no table loaded.
C10_BadInputIsFatal ==
    input.state # "ok" =>
        /\ pc \in {"makedirs", "read_csv", "failed"}
        /\ reads <= 1
        /\ reads = 1 => pc = "failed"
        /\ out = <<>>
        /\ Images(fslog) = <<>>
        /\ df = <<>>

\* the run has failed at the read; creating the directory is all it did
C10_Witness ==
    /\ input.state = "malformed"
    /\ pc = "failed"
    /\ reads = 1
    /\ fslog = <<"mkdir">>
    /\ out = <<>>

====
